---- MODULE Spec2Model ----
(***************************************************************************)
(* Model of the memory pool allocator (MemoryPoolAllocator.h): a pool of   *)
(* buckets, each an arena of BlockCount blocks of BlockSize bytes with an  *)
(* occupancy bitmap (ledger_), and the dispatcher MemoryPoolAllocator that *)
(* orders the buckets by waste and delegates to the first that succeeds.   *)
(*                                                                         *)
(* A ledger is a function from the byte index 0..ledger_size-1 to a byte   *)
(* 0..255; block k is byte k \div 8, bit 7 - (k % 8) counted from the LSB. *)
(* Addresses are integers; nullptr is 0.                                   *)
(***************************************************************************)
EXTENDS Integers, Sequences, FiniteSets, Bags, TLC

VARIABLES
    pool,    \* pool[b]: BlockSize and BlockCount of bucket b (const members)
    data,    \* data[b]: arena base address of bucket b (bucket::data_)
    ledger,  \* ledger[b]: occupancy bitmap of bucket b (bucket::ledger_)
    live,    \* bag of the caller's outstanding allocations
    last,    \* what the last call was, what it returned, the ledgers before it
    calls,   \* number of calls made so far
    thread,  \* thread[t]: where caller t is inside bucket::allocate
    exclusive, \* whether callers take the bucket's lock around allocate
    holder   \* holder[b]: the caller that holds the lock of bucket b

vars == <<pool, data, ledger, live, last, calls, thread, exclusive, holder>>

\* what the calls of a single caller leave alone
callers == <<thread, exclusive, holder>>

(***************************************************************************)
(* Configuration: the pool of main.cpp, with small block counts.           *)
(***************************************************************************)
bucket_count == 2
BlockSize0 == 8
BlockSize1 == 24
BlockCount0 == 10
BlockCount1 == 3
MaxLive == 3          \* most outstanding allocations the caller holds
MaxCalls == 6         \* most calls the caller makes
SizeBits == 16        \* modelled width of size_t

Buckets == 0 .. (bucket_count - 1)

BlockSize(b) == pool[b].BlockSize
BlockCount(b) == pool[b].BlockCount

\* std::array<bucket, 2> buckets{bucket(BlockSize0, ..), bucket(BlockSize1, ..)}
DriverPool ==
    [b \in Buckets |-> IF b = 0 THEN [BlockSize |-> BlockSize0, BlockCount |-> BlockCount0]
                       ELSE [BlockSize |-> BlockSize1, BlockCount |-> BlockCount1]]

\* byte lengths the caller asks for
Requests == {8, 10, 20, 40, 80}

nullptr == 0
ArenaBase == 4096

\* unsigned arithmetic of width SizeBits
Wrap(x) == x % (2 ^ SizeBits)

Min(a, b) == IF a < b THEN a ELSE b

\* const auto ledger_size = 1 + ((BlockCount - 1) / 8);
ledger_size(bc) == 1 + ((bc - 1) \div 8)

\* std::memset(ledger_, 0, ledger_size);
EmptyLedger(bc) == [i \in 0 .. (ledger_size(bc) - 1) |-> 0]

\* the arenas are separate malloc blocks: bucket 1's lies after bucket 0's,
\* either a chunk header away or far away
Layouts ==
    { [b \in Buckets |-> IF b = 0 THEN ArenaBase
                         ELSE ArenaBase + BlockSize(0) * BlockCount(0) + gap]
      : gap \in {16, 1024} }

(***************************************************************************)
(* Bit arithmetic on bytes.                                                *)
(***************************************************************************)
\* cur & (1 << j), as a truth value
BitSet(cur, j) == (cur \div (2 ^ j)) % 2 = 1

RECURSIVE AndBits(_, _, _)
AndBits(a, m, j) ==
    IF j < 0 THEN 0
    ELSE (IF BitSet(a, j) /\ BitSet(m, j) THEN 2 ^ j ELSE 0) + AndBits(a, m, j - 1)

\* a & m and a | m on uint8_t
And8(a, m) == AndBits(a, m, 7)
Or8(a, m) == a + m - And8(a, m)
\* ~m truncated to uint8_t
Not8(m) == 255 - m

\* const auto n = 1 + ((bytes - 1) / BlockSize);
BlocksNeeded(bytes, bs) == Wrap(1 + (Wrap(bytes - 1) \div bs))

(***************************************************************************)
(* bucket::find_contiguous_blocks: the scan over the ledger bytes i and    *)
(* the bits j = 7..0 of each, at bit position p = 8*i + (7 - j).           *)
(***************************************************************************)
RECURSIVE ScanFrom(_, _, _, _, _, _, _)
ScanFrom(led, bc, n, p, count, begin_index, shift) ==
    IF p >= 8 * ledger_size(bc) THEN bc
    ELSE LET i == p \div 8
             j == 7 - (p % 8)
             cur == led[i]
         IN  IF ~BitSet(cur, j)
             THEN IF count + 1 = n
                  THEN 8 * begin_index + shift
                  ELSE ScanFrom(led, bc, n, p + 1, count + 1, begin_index, shift)
             ELSE ScanFrom(led, bc, n, p + 1, 0, i, (8 - j) % 8)

find_contiguous_blocks(led, bc, n) == ScanFrom(led, bc, n, 0, 0, 0, 0)

(***************************************************************************)
(* bucket::set_used and bucket::set_free.                                  *)
(***************************************************************************)
\* FirstMask without the cut for a run that ends inside the byte
FirstMask_Uncut(bit_index, bits_remaining) == ((2 ^ (8 - bit_index)) - 1) % 256

\* the mask of the first byte: bits bit_index .. of the byte, cut after
\* bits_remaining bits when the run ends inside the byte
FirstMask(bit_index, bits_remaining) ==
    LET mask == ((2 ^ (8 - bit_index)) - 1) % 256
    IN  IF bits_remaining < 8 - bit_index
        THEN mask - ((2 ^ (8 - bit_index - bits_remaining)) - 1)
        ELSE mask

\* the mask of a following byte
NextMask(bits_to_set) ==
    IF bits_to_set < 8 THEN 255 - ((2 ^ (8 - bits_to_set)) - 1) ELSE 255

RECURSIVE SetUsedLoop(_, _, _)
SetUsedLoop(led, byte_index, bits_remaining) ==
    IF bits_remaining = 0 THEN led
    ELSE LET bi == byte_index + 1
             bits_to_set == Min(bits_remaining, 8)
         IN  SetUsedLoop([led EXCEPT ![bi] = Or8(@, NextMask(bits_to_set))],
                         bi, bits_remaining - bits_to_set)

set_used(led, index, n) ==
    LET byte_index == index \div 8
        bit_index == index % 8
    IN  SetUsedLoop([led EXCEPT ![byte_index] = Or8(@, FirstMask(bit_index, n))],
                    byte_index, n - Min(n, 8 - bit_index))

RECURSIVE SetFreeLoop(_, _, _)
SetFreeLoop(led, byte_index, bits_remaining) ==
    IF bits_remaining = 0 THEN led
    ELSE LET bi == byte_index + 1
             bits_to_set == Min(bits_remaining, 8)
         IN  SetFreeLoop([led EXCEPT ![bi] = And8(@, Not8(NextMask(bits_to_set)))],
                         bi, bits_remaining - bits_to_set)

set_free(led, index, n) ==
    LET byte_index == index \div 8
        bit_index == index % 8
    IN  SetFreeLoop([led EXCEPT ![byte_index] = And8(@, Not8(FirstMask(bit_index, n)))],
                    byte_index, n - Min(n, 8 - bit_index))

(***************************************************************************)
(* bucket::belongs, bucket::allocate, bucket::deallocate on bucket b with  *)
(* arena base base and ledger led.                                         *)
(***************************************************************************)
\* belongs without the upper end of the arena
belongs_NoUpper(b, base, ptr) == base <= ptr

belongs(b, base, ptr) ==
    (base <= ptr) /\ (ptr < base + Wrap(BlockSize(b) * BlockCount(b)))

\* the result: the pointer returned and the ledger left behind
bucket_allocate(b, base, led, bytes) ==
    LET n == BlocksNeeded(bytes, BlockSize(b))
        index == find_contiguous_blocks(led, BlockCount(b), n)
    IN  IF index = BlockCount(b)
        THEN [ptr |-> nullptr, index |-> index, n |-> n, led |-> led]
        ELSE [ptr |-> base + index * BlockSize(b), index |-> index, n |-> n,
              led |-> set_used(led, index, n)]

bucket_deallocate(b, base, led, ptr, bytes) ==
    LET distance == Wrap(ptr - base)
        index == distance \div BlockSize(b)
        n == BlocksNeeded(bytes, BlockSize(b))
    IN  set_free(led, index, n)

(***************************************************************************)
(* The dispatcher: struct info, MemoryPoolAllocator::allocate and          *)
(* MemoryPoolAllocator::deallocate.                                        *)
(***************************************************************************)
\* the first loop of allocate: one info per bucket
Options(bytes) ==
    [b \in Buckets |->
        IF BlockSize(b) >= bytes
        THEN [index |-> b, block_count |-> 1, waste |-> Wrap(BlockSize(b) - bytes)]
        ELSE LET n == BlocksNeeded(bytes, BlockSize(b))
                 mem_required == Wrap(n * BlockSize(b))
             IN  [index |-> b, block_count |-> n,
                  waste |-> Wrap(mem_required - bytes)]]

\* info::operator< comparing block_count before waste
info_less_BlocksFirst(a, other) ==
    IF a.block_count = other.block_count
    THEN a.waste < other.waste
    ELSE a.block_count < other.block_count

\* info::operator<
info_less(a, other) ==
    IF a.waste = other.waste
    THEN a.block_count < other.block_count
    ELSE a.waste < other.waste

\* std::sort(options.begin(), options.end()): any arrangement of the infos in
\* which no element is less than one before it (the sort is not stable)
SortedOptions(bytes) ==
    { s \in [1 .. bucket_count -> Buckets] :
        /\ \A i, j \in 1 .. bucket_count : i # j => s[i] # s[j]
        /\ \A i, j \in 1 .. bucket_count :
              i < j => ~info_less(Options(bytes)[s[j]], Options(bytes)[s[i]]) }

\* the second loop of allocate from position k of the sorted options; b = -1
\* and ptr = nullptr stand for throw std::bad_alloc{}
RECURSIVE TryFrom(_, _, _, _, _)
TryFrom(dat, leds, order, k, bytes) ==
    IF k > bucket_count
    THEN [ptr |-> nullptr, b |-> -1, index |-> 0, n |-> 0, leds |-> leds,
          tried |-> k - 1]
    ELSE LET b == order[k]
             r == bucket_allocate(b, dat[b], leds[b], bytes)
         IN  IF r.ptr # nullptr
             THEN [ptr |-> r.ptr, b |-> b, index |-> r.index, n |-> r.n,
                   leds |-> [leds EXCEPT ![b] = r.led], tried |-> k]
             ELSE TryFrom(dat, leds, order, k + 1, bytes)

pool_allocate(dat, leds, order, bytes) == TryFrom(dat, leds, order, 1, bytes)

\* the loop of deallocate from bucket b: the first bucket that owns ptr
RECURSIVE FreeFrom(_, _, _, _, _)
FreeFrom(dat, leds, b, ptr, bytes) ==
    IF b >= bucket_count THEN leds
    ELSE IF belongs(b, dat[b], ptr)
         THEN [leds EXCEPT ![b] = bucket_deallocate(b, dat[b], leds[b], ptr, bytes)]
         ELSE FreeFrom(dat, leds, b + 1, ptr, bytes)

pool_deallocate(dat, leds, ptr, bytes) == FreeFrom(dat, leds, 0, ptr, bytes)

(***************************************************************************)
(* The state machine: a single-threaded caller that makes up to MaxCalls   *)
(* calls, holds up to MaxLive allocations, and releases only what it       *)
(* holds, with the byte length it asked for.                               *)
(***************************************************************************)
NoOrder == [k \in 1 .. bucket_count |-> -1]

Call(op, b, bytes, ptr, index, n, order, tried) ==
    [op |-> op, b |-> b, bytes |-> bytes, ptr |-> ptr, index |-> index, n |-> n,
     pre |-> ledger, order |-> order, tried |-> tried]

Held(ptr, bytes, b) == [ptr |-> ptr, bytes |-> bytes, b |-> b]

FreshPool == [b \in Buckets |-> EmptyLedger(BlockCount(b))]

NoCall ==
    [op |-> "none", b |-> -1, bytes |-> 0, ptr |-> nullptr, index |-> 0, n |-> 0,
     pre |-> FreshPool, order |-> NoOrder, tried |-> 0]

\* the callers of the two-caller runs, and no caller
Threads == 1 .. 2
NoThread == 0

\* a caller outside allocate
Idle ==
    [pc |-> "idle", b |-> 0, bytes |-> 0, n |-> 0, index |-> 0, ptr |-> nullptr,
     byte_index |-> 0, byte |-> 0, overlapped |-> FALSE]

\* one caller, no lock
SingleCaller ==
    /\ thread = [t \in Threads |-> Idle]
    /\ exclusive = FALSE
    /\ holder = [b \in Buckets |-> NoThread]

\* the pool after the construction of its buckets
Init ==
    /\ pool = DriverPool
    /\ data \in Layouts
    /\ ledger = FreshPool
    /\ live = EmptyBag
    /\ last = NoCall
    /\ calls = 0
    /\ SingleCaller

\* bucket b's allocate(bytes), called directly
BucketAllocate(b, bytes) ==
    LET r == bucket_allocate(b, data[b], ledger[b], bytes)
    IN  /\ calls < MaxCalls
        /\ r.ptr # nullptr => BagCardinality(live) < MaxLive
        /\ ledger' = [ledger EXCEPT ![b] = r.led]
        /\ live' = IF r.ptr = nullptr THEN live
                   ELSE live (+) SetToBag({Held(r.ptr, bytes, b)})
        /\ last' = Call("bucket_allocate", b, bytes, r.ptr, r.index, r.n, NoOrder, 0)
        /\ calls' = calls + 1
        /\ UNCHANGED <<pool, data, callers>>

\* the deallocate(ptr, bytes) of the bucket that returned ptr for bytes
BucketDeallocate(h) ==
    /\ calls < MaxCalls
    /\ BagIn(h, live)
    /\ ledger' = [ledger EXCEPT ![h.b] =
                     bucket_deallocate(h.b, data[h.b], ledger[h.b], h.ptr, h.bytes)]
    /\ live' = live (-) SetToBag({h})
    /\ last' = Call("bucket_deallocate", h.b, h.bytes, h.ptr,
                    Wrap(h.ptr - data[h.b]) \div BlockSize(h.b),
                    BlocksNeeded(h.bytes, BlockSize(h.b)), NoOrder, 0)
    /\ calls' = calls + 1
    /\ UNCHANGED <<pool, data, callers>>

\* the dispatcher's allocate(bytes)
Allocate(bytes) ==
    \E order \in SortedOptions(bytes) :
        LET r == pool_allocate(data, ledger, order, bytes)
        IN  /\ calls < MaxCalls
            /\ r.ptr # nullptr => BagCardinality(live) < MaxLive
            /\ ledger' = r.leds
            /\ live' = IF r.ptr = nullptr THEN live
                       ELSE live (+) SetToBag({Held(r.ptr, bytes, r.b)})
            /\ last' = Call("allocate", r.b, bytes, r.ptr, r.index, r.n, order, r.tried)
            /\ calls' = calls + 1
            /\ UNCHANGED <<pool, data, callers>>

\* the dispatcher's deallocate(ptr, bytes) of a held allocation
Deallocate(h) ==
    /\ calls < MaxCalls
    /\ BagIn(h, live)
    /\ ledger' = pool_deallocate(data, ledger, h.ptr, h.bytes)
    /\ live' = live (-) SetToBag({h})
    /\ last' = Call("deallocate", h.b, h.bytes, h.ptr, 0, 0, NoOrder, 0)
    /\ calls' = calls + 1
    /\ UNCHANGED <<pool, data, callers>>

\* a caller of the dispatcher
Next ==
    \/ \E bytes \in Requests : Allocate(bytes)
    \/ \E h \in BagToSet(live) : Deallocate(h)

Spec == Init /\ [][Next]_vars

\* a caller of one bucket: the other buckets of the pool stay fresh
Alone(b) == \A c \in Buckets \ {b} : ledger[c] = EmptyLedger(BlockCount(c))

NextBucket ==
    \/ \E b \in Buckets, bytes \in Requests : Alone(b) /\ BucketAllocate(b, bytes)
    \/ \E h \in BagToSet(live) : BucketDeallocate(h)

SpecBucket == Init /\ [][NextBucket]_vars

(***************************************************************************)
(* The bit-range routines on their own: from a ledger of any content, one  *)
(* marking (set_used) or one release (bucket::deallocate) of a run that    *)
(* lies within the bucket's blocks.                                        *)
(***************************************************************************)
BytePatterns == {0, 85, 170, 255}

PatternLedgers(bc) == [0 .. (ledger_size(bc) - 1) -> BytePatterns]

InitBits ==
    /\ pool = DriverPool
    /\ data \in Layouts
    /\ ledger \in [Buckets -> UNION {PatternLedgers(BlockCount(b)) : b \in Buckets}]
    /\ \A b \in Buckets : ledger[b] \in PatternLedgers(BlockCount(b))
    /\ live = EmptyBag
    /\ last = NoCall
    /\ calls = 0
    /\ SingleCaller

\* set_used(index, n) on bucket b
MarkUsed(b, index, n) ==
    /\ calls = 0
    /\ ledger' = [ledger EXCEPT ![b] = set_used(@, index, n)]
    /\ last' = Call("set_used", b, 0, nullptr, index, n, NoOrder, 0)
    /\ calls' = 1
    /\ UNCHANGED <<pool, data, live, callers>>

\* deallocate(data_ + index * BlockSize, bytes) on bucket b
Release(b, index, bytes) ==
    /\ calls = 0
    /\ ledger' = [ledger EXCEPT ![b] =
                     bucket_deallocate(b, data[b], @, data[b] + index * BlockSize(b), bytes)]
    /\ last' = Call("release", b, bytes, data[b] + index * BlockSize(b), index, 0,
                    NoOrder, 0)
    /\ calls' = 1
    /\ UNCHANGED <<pool, data, live, callers>>

\* the byte lengths that need n blocks of size bs: the least and the greatest
BytesFor(n, bs) == {(n - 1) * bs + 1, n * bs}

NextBits ==
    \/ \E b \in Buckets : \E index \in 0 .. (BlockCount(b) - 1) :
          \E n \in 1 .. (BlockCount(b) - index) : MarkUsed(b, index, n)
    \/ \E b \in Buckets : \E index \in 0 .. (BlockCount(b) - 1) :
          \E n \in 1 .. (BlockCount(b) - index) :
             \E bytes \in BytesFor(n, BlockSize(b)) : Release(b, index, bytes)

SpecBits == InitBits /\ [][NextBits]_vars

(***************************************************************************)
(* What the properties are stated with: the ledger as a sequence of block  *)
(* bits, and the search for a free run done bit by bit.                    *)
(***************************************************************************)
\* block k of a ledger is marked used
BlockBit(led, k) == BitSet(led[k \div 8], 7 - (k % 8))

\* ceil(bytes / bs)
CeilDiv(bytes, bs) == (bytes + bs - 1) \div bs

\* blocks [i, i+n) are all free and lie within [0, bc)
FreeRun(led, bc, i, n) ==
    /\ i + n <= bc
    /\ \A k \in i .. (i + n - 1) : ~BlockBit(led, k)

HasRun(led, bc, n) == \E i \in 0 .. (bc - 1) : FreeRun(led, bc, i, n)

\* the smallest index of a free run of n blocks
FirstFit(led, bc, n) ==
    CHOOSE i \in 0 .. (bc - 1) :
        FreeRun(led, bc, i, n) /\ \A h \in 0 .. (i - 1) : ~FreeRun(led, bc, h, n)

AllUsed(led, bc) == \A k \in 0 .. (bc - 1) : BlockBit(led, k)

PaddingBits(bc) == bc .. (8 * ledger_size(bc) - 1)

(***************************************************************************)
(* Properties of a bucket (SpecBucket).                                    *)
(***************************************************************************)
\* the last call was bucket b's allocate, called directly
AllocCalled == last.op = "bucket_allocate"

\* C1: first-fit. bucket.allocate, asked for n = ceil(bytes/block_size)
\* blocks, returns arena_base + i*block_size for the smallest i such that
\* blocks [i, i+n) are all free and lie within [0, block_count), and returns
\* none exactly when there is no such run.
C1_FirstFit ==
    AllocCalled =>
        LET b == last.b
            bc == BlockCount(b)
            n == CeilDiv(last.bytes, BlockSize(b))
        IN  IF HasRun(last.pre[b], bc, n)
            THEN last.ptr = data[b] + FirstFit(last.pre[b], bc, n) * BlockSize(b)
            ELSE last.ptr = nullptr

\* C2: membership. Every address bucket.allocate returns, other than none,
\* lies in the bucket's arena: belongs(address) is true.
C2_Membership ==
    (AllocCalled /\ last.ptr # nullptr) => belongs(last.b, data[last.b], last.ptr)

\* C3: padding. Every ledger bit at a position in
\* [block_count, 8*ceil(block_count/8)) is 0 in every reachable state.
C3_PaddingClear ==
    \A b \in Buckets : \A k \in PaddingBits(BlockCount(b)) : ~BlockBit(ledger[b], k)

\* C4: round trip. When allocate(b) has returned the address of index i
\* with run length n, a deallocate(address, b) that follows immediately
\* leaves the ledger bits [i, i+n) as they were before the allocate.
C4_RoundTrip ==
    [][ ( /\ AllocCalled
          /\ last.ptr # nullptr
          /\ last'.op = "bucket_deallocate"
          /\ last'.b = last.b
          /\ last'.ptr = last.ptr
          /\ last'.bytes = last.bytes )
        => \A k \in last.index .. (last.index + last.n - 1) :
              BlockBit(ledger'[last.b], k) = BlockBit(last.pre[last.b], k) ]_vars

\* C5: exhaustion. When all blocks [0, block_count) of a bucket are marked
\* used, bucket.allocate returns none for every byte length >= 1.
C5_Exhaustion ==
    (AllocCalled /\ AllUsed(last.pre[last.b], BlockCount(last.b)))
        => last.ptr = nullptr

\* the blocks needed by the allocations the caller holds in bucket b
RECURSIVE HeldBlocks(_, _)
HeldBlocks(hs, b) ==
    IF hs = {} THEN 0
    ELSE LET h == CHOOSE x \in hs : TRUE
         IN  (IF h.b = b THEN CopiesIn(h, live) * CeilDiv(h.bytes, BlockSize(b)) ELSE 0)
             + HeldBlocks(hs \ {h}, b)

\* every call so far was an allocate that succeeded
OnlyAllocated == calls = BagCardinality(live)

\* C6: back-to-back runs. On a fresh bucket, allocate calls with no
\* deallocate whose block needs sum to at most block_count return the k-th
\* run at the sum of the needs before it and mark exactly those blocks,
\* wherever the run before it ended within its ledger byte.
C6_BackToBack ==
    (AllocCalled /\ OnlyAllocated
        /\ HeldBlocks(BagToSet(live), last.b) <= BlockCount(last.b))
    => LET b == last.b
           total == HeldBlocks(BagToSet(live), b)
           n == CeilDiv(last.bytes, BlockSize(b))
       IN  /\ last.ptr = data[b] + (total - n) * BlockSize(b)
           /\ \A k \in 0 .. (8 * ledger_size(BlockCount(b)) - 1) :
                 BlockBit(ledger[b], k) <=> k < total

(***************************************************************************)
(* Properties of the bit-range routines (SpecBits).                        *)
(***************************************************************************)
\* C7: bit-range exactness. For index in [0, block_count) and n >= 1 with
\* index + n <= block_count, marking a run used sets exactly the ledger bits
\* [index, index+n), and releasing it (bucket.deallocate with
\* index = (address - arena_base)/block_size and n = ceil(bytes/block_size))
\* clears exactly those bits; every bit outside the run and every other
\* bucket's ledger is unchanged.
C7_BitRangeExact ==
    LET b == last.b
        bits == 0 .. (8 * ledger_size(BlockCount(b)) - 1)
        n == IF last.op = "set_used" THEN last.n
             ELSE CeilDiv(last.bytes, BlockSize(b))
        run == last.index .. (last.index + n - 1)
    IN  /\ last.op = "set_used" =>
              /\ \A k \in bits :
                    BlockBit(ledger[b], k) <=> (k \in run \/ BlockBit(last.pre[b], k))
              /\ \A c \in Buckets \ {b} : ledger[c] = last.pre[c]
        /\ last.op = "release" =>
              /\ \A k \in bits :
                    BlockBit(ledger[b], k) <=> (k \notin run /\ BlockBit(last.pre[b], k))
              /\ \A c \in Buckets \ {b} : ledger[c] = last.pre[c]

\* a run that starts inside one ledger byte and ends inside the next was
\* marked, or released, in a ledger that had bits set on both sides of it
C7_Witness ==
    /\ last.op \in {"set_used", "release"}
    /\ last.index % 8 > 0
    /\ last.index \div 8 < (last.index + 2) \div 8
    /\ last.pre[last.b] # EmptyLedger(BlockCount(last.b))
    /\ ledger # last.pre

(***************************************************************************)
(* Properties of the dispatcher (Spec).                                    *)
(***************************************************************************)
\* the last call was the dispatcher's allocate
PoolAllocCalled == last.op = "allocate"

\* blocks_needed and waste of a request in bucket b, as the design states them
Needed(bytes, b) == CeilDiv(bytes, BlockSize(b))
Waste(bytes, b) == Needed(bytes, b) * BlockSize(b) - bytes

\* bucket a is not to be tried after bucket c
NotAfter(bytes, a, c) ==
    \/ Waste(bytes, a) < Waste(bytes, c)
    \/ Waste(bytes, a) = Waste(bytes, c) /\ Needed(bytes, a) <= Needed(bytes, c)

\* bucket b had a free run of the needed length before the last call
HadRoom(b) == HasRun(last.pre[b], BlockCount(b), Needed(last.bytes, b))

\* bucket b's allocate of the last request returned none, before the last call
GaveNone(b) == bucket_allocate(b, data[b], last.pre[b], last.bytes).ptr = nullptr

\* C8: waste-minimizing selection. The dispatcher's allocate tries the
\* buckets in order of ascending waste, ties broken by ascending
\* blocks_needed, and returns the result of the first bucket in that order
\* whose allocate is not none; with the 8-byte and the 24-byte bucket both
\* having room, 10 bytes are served from the 8-byte bucket and 20 bytes from
\* the 24-byte bucket.
C8_Selection ==
    PoolAllocCalled =>
        LET order == last.order
            slots == 1 .. bucket_count
        IN  /\ \A b \in Buckets : \E k \in slots : order[k] = b
            /\ \A i, j \in slots : i < j => NotAfter(last.bytes, order[i], order[j])
            /\ \A k \in slots :
                  ((\A h \in 1 .. (k - 1) : GaveNone(order[h])) /\ ~GaveNone(order[k]))
                  => /\ last.b = order[k]
                     /\ last.tried = k
                     /\ last.ptr = bucket_allocate(order[k], data[order[k]],
                                                   last.pre[order[k]], last.bytes).ptr
            /\ (\A k \in slots : GaveNone(order[k])) => last.ptr = nullptr
            /\ (last.bytes = 10 /\ \A b \in Buckets : HadRoom(b))
                  => BlockSize(last.b) = 8 /\ belongs(last.b, data[last.b], last.ptr)
            /\ (last.bytes = 20 /\ \A b \in Buckets : HadRoom(b))
                  => BlockSize(last.b) = 24 /\ belongs(last.b, data[last.b], last.ptr)

\* a 20-byte request, with room in both buckets and equal waste in both, was
\* served from the 24-byte bucket while the 8-byte bucket held allocations
C8_Witness ==
    /\ PoolAllocCalled
    /\ last.bytes = 20
    /\ \A b \in Buckets : HadRoom(b)
    /\ Waste(20, 0) = Waste(20, 1)
    /\ BlockSize(last.b) = 24
    /\ last.pre[0] # EmptyLedger(BlockCount(0))

\* C9: fallback. When the best-scoring bucket has no free run of the needed
\* length and a worse-scoring bucket has one, the dispatcher's allocate
\* succeeds with an address in the arena of the best-scoring bucket among
\* those that have room, and the ledgers of the buckets tried before it are
\* unchanged.
C9_Fallback ==
    (PoolAllocCalled /\ ~HadRoom(last.order[1])
        /\ \E k \in 2 .. bucket_count : HadRoom(last.order[k]))
    => LET k == CHOOSE x \in 2 .. bucket_count :
                    HadRoom(last.order[x]) /\ \A h \in 2 .. (x - 1) : ~HadRoom(last.order[h])
           b == last.order[k]
       IN  /\ last.ptr # nullptr
           /\ belongs(b, data[b], last.ptr)
           /\ \A h \in 1 .. (k - 1) : ledger[last.order[h]] = last.pre[last.order[h]]

\* C10: pool-wide exhaustion. When every bucket has all of its blocks
\* marked used, the dispatcher's allocate fails with OutOfMemory and no bit
\* of any ledger changes.
C10_PoolExhausted ==
    (PoolAllocCalled /\ \A b \in Buckets : AllUsed(last.pre[b], BlockCount(b)))
    => (last.ptr = nullptr /\ ledger = last.pre)

(***************************************************************************)
(* Requests larger than any bucket (SpecOversize): a caller of the         *)
(* dispatcher that also asks for more bytes than the largest bucket holds. *)
(***************************************************************************)
\* byte lengths that need more blocks than either bucket has
Oversize == {88, 200}

NextOversize ==
    \/ \E bytes \in Requests \cup Oversize : Allocate(bytes)
    \/ \E h \in BagToSet(live) : Deallocate(h)

SpecOversize == Init /\ [][NextOversize]_vars

\* C11: oversize request. When a request needs more blocks than the bucket
\* has, ceil(bytes/block_size) > block_count, in every bucket of the pool,
\* the dispatcher's allocate fails with OutOfMemory and no ledger bit
\* changes, whatever the block counts and even with all buckets empty.
C11_Oversize ==
    (PoolAllocCalled /\ \A b \in Buckets : Needed(last.bytes, b) > BlockCount(b))
    => (last.ptr = nullptr /\ ledger = last.pre)

(***************************************************************************)
(* Routing of the dispatcher's deallocate (Spec).                          *)
(***************************************************************************)
\* address ptr lies in the arena of bucket b
InArena(b, ptr) == data[b] <= ptr /\ ptr < data[b] + BlockSize(b) * BlockCount(b)

\* the buckets whose arena holds the address of the last call
Owners == {b \in Buckets : InArena(b, last.ptr)}

\* C12: routing. The dispatcher's deallocate(address, bytes) changes ledger
\* bits only in the first bucket, in pool order, whose arena holds the
\* address, and leaves every other bucket's ledger unchanged; when no
\* bucket's arena holds the address it changes no ledger bit at all.
C12_Routing ==
    last.op = "deallocate" =>
        IF Owners = {}
        THEN ledger = last.pre
        ELSE LET first == CHOOSE b \in Owners : \A c \in Owners : b <= c
             IN  \A c \in Buckets \ {first} : ledger[c] = last.pre[c]

\* an address of the second bucket was released while the first bucket held
\* allocations: the second bucket's ledger changed
C12_Witness ==
    /\ last.op = "deallocate"
    /\ Owners = {1}
    /\ ledger[1] # last.pre[1]
    /\ last.pre[0] # EmptyLedger(BlockCount(0))

(***************************************************************************)
(* Live allocations of one bucket (SpecBucket).                            *)
(***************************************************************************)
\* the number of set bits of a ledger
SetBits(led, bc) == Cardinality({k \in 0 .. (8 * ledger_size(bc) - 1) : BlockBit(led, k)})

\* C13: no double allocation. With allocate and paired deallocate calls
\* from one caller, an allocate that succeeds returns a run none of whose
\* blocks was marked used when it was called, and the number of set ledger
\* bits equals the sum of the live allocations' block counts.
C13_NoDoubleAllocation ==
    (AllocCalled /\ last.ptr # nullptr) =>
        LET b == last.b
            i == (last.ptr - data[b]) \div BlockSize(b)
            n == CeilDiv(last.bytes, BlockSize(b))
        IN  /\ \A k \in i .. (i + n - 1) :
                   k < 8 * ledger_size(BlockCount(b)) => ~BlockBit(last.pre[b], k)
            /\ SetBits(ledger[b], BlockCount(b)) = HeldBlocks(BagToSet(live), b)

(***************************************************************************)
(* Release of everything that was allocated (Spec).                        *)
(***************************************************************************)
\* C14: no leak on full release. After any sequence of dispatcher allocate
\* calls, once every address that was returned has been passed exactly once
\* to the dispatcher's deallocate with its byte length, every ledger bit of
\* every bucket is 0.
C14_NoLeak ==
    (last.op = "deallocate" /\ live = EmptyBag) => ledger = FreshPool

(***************************************************************************)
(* Two callers inside bucket::allocate at once (SpecRace).  The code takes *)
(* no lock: a caller's allocate is the search (find_contiguous_blocks),    *)
(* then for each ledger byte of the run the read and the write of          *)
(* ledger_[byte_index] |= mask, then the return.  With exclusive, a caller *)
(* holds the bucket's lock from the search to the return.                  *)
(***************************************************************************)
\* byte lengths the two callers ask for
RaceRequests == {8, 20, 40}

\* numbers of blocks in use when the callers arrive
RaceStarts == {0, 3, 5}

\* the ledger of bucket b after allocate(k * BlockSize) on the fresh bucket
UsedPrefix(b, base, k) ==
    IF k = 0 THEN EmptyLedger(BlockCount(b))
    ELSE bucket_allocate(b, base, EmptyLedger(BlockCount(b)), k * BlockSize(b)).led

InitRace ==
    /\ pool = DriverPool
    /\ data \in Layouts
    /\ \E k \in [Buckets -> RaceStarts] :
          /\ \A b \in Buckets : k[b] <= BlockCount(b)
          /\ ledger = [b \in Buckets |-> UsedPrefix(b, data[b], k[b])]
    /\ live = EmptyBag
    /\ last = [NoCall EXCEPT !.pre = ledger]
    /\ calls = 0
    /\ thread = [t \in Threads |-> Idle]
    /\ exclusive \in BOOLEAN
    /\ holder = [b \in Buckets |-> NoThread]

\* caller u has searched bucket b and has not written a ledger byte yet
BeforeMarking(u, b) ==
    /\ thread[u].pc \in {"load", "store"}
    /\ thread[u].b = b
    /\ thread[u].byte_index = thread[u].index \div 8

\* the mask set_used ors into ledger byte p for the run [index, index + n)
mask_at(b, index, n, p) == set_used(EmptyLedger(BlockCount(b)), index, n)[p]

\* AllocateSearch marking the run it found in the same step
AllocateSearch_Reserving(t, b, bytes) ==
    LET n == BlocksNeeded(bytes, BlockSize(b))
        index == find_contiguous_blocks(ledger[b], BlockCount(b), n)
        found == index # BlockCount(b)
    IN  /\ thread[t].pc = "idle"
        /\ exclusive => holder[b] = NoThread
        /\ thread' = [thread EXCEPT ![t] =
                         [pc |-> IF found THEN "load" ELSE "done",
                          b |-> b, bytes |-> bytes, n |-> n, index |-> index,
                          ptr |-> nullptr, byte_index |-> index \div 8, byte |-> 0,
                          overlapped |-> found /\ \E u \in Threads \ {t} : BeforeMarking(u, b)]]
        /\ holder' = IF exclusive /\ found THEN [holder EXCEPT ![b] = t] ELSE holder
        /\ ledger' = IF found THEN [ledger EXCEPT ![b] = set_used(@, index, n)] ELSE ledger
        /\ UNCHANGED <<pool, data, live, last, calls, exclusive>>

\* caller t enters allocate(bytes) of bucket b: the block need and the search
AllocateSearch(t, b, bytes) ==
    LET n == BlocksNeeded(bytes, BlockSize(b))
        index == find_contiguous_blocks(ledger[b], BlockCount(b), n)
        found == index # BlockCount(b)
    IN  /\ thread[t].pc = "idle"
        /\ exclusive => holder[b] = NoThread
        /\ thread' = [thread EXCEPT ![t] =
                         [pc |-> IF found THEN "load" ELSE "done",
                          b |-> b, bytes |-> bytes, n |-> n, index |-> index,
                          ptr |-> nullptr, byte_index |-> index \div 8, byte |-> 0,
                          overlapped |-> found /\ \E u \in Threads \ {t} : BeforeMarking(u, b)]]
        /\ holder' = IF exclusive /\ found THEN [holder EXCEPT ![b] = t] ELSE holder
        /\ UNCHANGED <<pool, data, ledger, live, last, calls, exclusive>>

\* the read of ledger_[byte_index] |= mask
SetUsedLoad(t) ==
    /\ thread[t].pc = "load"
    /\ thread' = [thread EXCEPT ![t].pc = "store",
                                ![t].byte = ledger[thread[t].b][thread[t].byte_index]]
    /\ UNCHANGED <<pool, data, ledger, live, last, calls, exclusive, holder>>

\* the write of ledger_[byte_index] |= mask; after the last byte of the run
\* allocate returns data_ + index * BlockSize
SetUsedStore(t) ==
    LET c == thread[t]
        mask == mask_at(c.b, c.index, c.n, c.byte_index)
        finished == c.byte_index = (c.index + c.n - 1) \div 8
    IN  /\ c.pc = "store"
        /\ ledger' = [ledger EXCEPT ![c.b][c.byte_index] = Or8(c.byte, mask)]
        /\ thread' = IF finished
                     THEN [thread EXCEPT ![t].pc = "done",
                                         ![t].ptr = data[c.b] + c.index * BlockSize(c.b)]
                     ELSE [thread EXCEPT ![t].pc = "load",
                                         ![t].byte_index = c.byte_index + 1]
        /\ holder' = IF exclusive /\ finished
                     THEN [holder EXCEPT ![c.b] = NoThread] ELSE holder
        /\ UNCHANGED <<pool, data, live, last, calls, exclusive>>

NextRace ==
    \E t \in Threads :
        \/ \E b \in Buckets, bytes \in RaceRequests : AllocateSearch(t, b, bytes)
        \/ SetUsedLoad(t)
        \/ SetUsedStore(t)

SpecRace == InitRace /\ [][NextRace]_vars

\* callers t and u both searched bucket b before either wrote a ledger byte,
\* asked for the same number of blocks, and both have returned
RacedSameNeed(t, u) ==
    /\ t # u
    /\ thread[t].overlapped
    /\ thread[t].pc = "done" /\ thread[u].pc = "done"
    /\ thread[t].n = thread[u].n

\* C15: unsynchronized race. Without a lock, when two allocate calls on the
\* same bucket both search before either marks, both callers receive the
\* same block run (the ledger holds that one run once); with one exclusive
\* lock per bucket around allocate, two callers are never both between the
\* search and the end of the marking of the same bucket.
C15_Race ==
    /\ ~exclusive =>
          \A t, u \in Threads :
              RacedSameNeed(t, u) =>
                  LET b == thread[t].b
                      i == (thread[t].ptr - data[b]) \div BlockSize(b)
                  IN  /\ thread[t].ptr # nullptr
                      /\ thread[u].ptr = thread[t].ptr
                      /\ \A k \in 0 .. (8 * ledger_size(BlockCount(b)) - 1) :
                            BlockBit(ledger[b], k) <=>
                                (BlockBit(last.pre[b], k) \/ (i <= k /\ k < i + thread[t].n))
    /\ exclusive =>
          \A t, u \in Threads :
              (t # u /\ thread[t].pc \in {"load", "store"} /\ thread[u].pc \in {"load", "store"})
                  => thread[t].b # thread[u].b

\* without a lock, two callers searched before either marked and both
\* returned the same address
C15_Witness ==
    /\ ~exclusive
    /\ \E t, u \in Threads : RacedSameNeed(t, u) /\ thread[t].ptr = thread[u].ptr
                               /\ thread[t].ptr # nullptr

(***************************************************************************)
(* Zero-length requests (SpecZero): one allocate(0), on a bucket or on the *)
(* dispatcher, from a ledger of any content, for pools of several block    *)
(* sizes.                                                                  *)
(***************************************************************************)
\* block sizes of the first bucket
ZeroBlockSizes == {1, 2, 3, BlockSize0}

\* the widest block size whose arena of OneByteBlocks blocks has a size that
\* wraps to 0 (bucket(2^61, 8) with a 64-bit size_t: malloc(0) succeeds)
WideBlockSize == 2 ^ (SizeBits - 3)
OneByteBlocks == 8

ZeroPools ==
    { [b \in Buckets |-> IF b = 0 THEN [BlockSize |-> bs, BlockCount |-> BlockCount0]
                         ELSE g]
      : bs \in ZeroBlockSizes,
        g \in { [BlockSize |-> BlockSize1, BlockCount |-> BlockCount1],
                [BlockSize |-> WideBlockSize, BlockCount |-> OneByteBlocks] } }

InitZero ==
    /\ pool \in ZeroPools
    /\ data \in Layouts
    /\ ledger \in [Buckets -> UNION {PatternLedgers(BlockCount(b)) : b \in Buckets}]
    /\ \A b \in Buckets : ledger[b] \in PatternLedgers(BlockCount(b))
    /\ live = EmptyBag
    /\ last = [NoCall EXCEPT !.pre = ledger]
    /\ calls = 0
    /\ SingleCaller

NextZero ==
    /\ calls = 0
    /\ \/ \E b \in Buckets : BucketAllocate(b, 0)
       \/ Allocate(0)

SpecZero == InitZero /\ [][NextZero]_vars

\* C16: zero-length request. With the block need computed in unsigned
\* wraparound arithmetic, n = (1 + ((0 - 1) mod 2^w) / block_size) mod 2^w,
\* bucket.allocate(0) returns none and changes no ledger bit for every
\* block_size >= 1 and every ledger state (n is 0 for block_size 1 and
\* otherwise exceeds the ledger's bit count), so the dispatcher's
\* allocate(0) fails with OutOfMemory and reserves no block.
C16_ZeroLength ==
    ((AllocCalled \/ PoolAllocCalled) /\ last.bytes = 0) =>
        (last.ptr = nullptr /\ ledger = last.pre)

====
